---- MODULE Spec2Model ----
(***************************************************************************)
(* Model of src/server/routes/ai.js: the four generation endpoints         *)
(* (code-review, roadmap, hint, debug), the history and feedback endpoints,*)
(* the completion client callOpenAI and the suggestions extractor.         *)
(* Every await of a handler is a point where other requests may run, so a  *)
(* handler is one action per segment between two awaits.                   *)
(***************************************************************************)
EXTENDS Integers, Sequences, FiniteSets, Bags, TLC

\* ---------------------------------------------------------------- bounds
MaxReq == 2        \* requests that arrive in one behaviour
MaxTime == 1       \* largest value the millisecond clock reaches
MaxLines == 7      \* lines of a completion text given to the extractor alone

\* ------------------------------------------------------- program constants
SuggestionCap == 5

\* ------------------------------------------------------------------ texts
\* A text is a sequence of one-character strings; NL is the line separator.
NL == "\n"
KwSuggestion == <<"s","u","g","g","e","s","t","i","o","n">>
KwImprove == <<"i","m","p","r","o","v","e">>
KwConsider == <<"c","o","n","s","i","d","e","r">>

IsSpace(c) == c \in {" ", "\t", "\n", "\r"}

\* String.prototype.toLowerCase on the letters the sample texts use
LowerChar(c) ==
    CASE c = "S" -> "s" [] c = "I" -> "i" [] c = "C" -> "c"
      [] c = "M" -> "m" [] c = "P" -> "p" [] c = "R" -> "r"
      [] c = "O" -> "o" [] c = "V" -> "v" [] c = "E" -> "e"
      [] OTHER -> c
ToLower(s) == [i \in 1..Len(s) |-> LowerChar(s[i])]

\* String.prototype.includes: kw occurs as a contiguous run of s
Includes(s, kw) ==
    \E i \in 0..(Len(s) - Len(kw)) :
        \A j \in 1..Len(kw) : s[i + j] = kw[j]

\* String.prototype.trim: drop white space at both ends
RECURSIVE TrimLeft(_)
TrimLeft(s) ==
    IF s # <<>> /\ IsSpace(Head(s)) THEN TrimLeft(Tail(s)) ELSE s
RECURSIVE TrimRight(_)
TrimRight(s) ==
    IF s # <<>> /\ IsSpace(s[Len(s)]) THEN TrimRight(SubSeq(s, 1, Len(s) - 1))
    ELSE s
Trim(s) == TrimRight(TrimLeft(s))

\* content.split('\n'): always at least one (possibly empty) line
RECURSIVE SplitFrom(_, _)
SplitFrom(s, cur) ==
    IF s = <<>> THEN <<cur>>
    ELSE IF Head(s) = NL THEN <<cur>> \o SplitFrom(Tail(s), <<>>)
    ELSE SplitFrom(Tail(s), Append(cur, Head(s)))
SplitLines(s) == SplitFrom(s, <<>>)

\* variant: the cap is off by one
SliceTo_OneMore(q, n) == SubSeq(q, 1, IF Len(q) < n + 1 THEN Len(q) ELSE n + 1)

\* Array.prototype.slice(0, n)
SliceTo(q, n) == SubSeq(q, 1, IF Len(q) < n THEN Len(q) ELSE n)

\* variant: the keywords matched whatever their case
LineMatches_AnyCase(line) ==
    Includes(ToLower(line), KwSuggestion) \/ Includes(ToLower(line), KwImprove)
        \/ Includes(ToLower(line), KwConsider)

\* the test of line 370
LineMatches(line) ==
    Includes(line, KwSuggestion) \/ Includes(line, KwImprove)
        \/ Includes(line, KwConsider)

RECURSIVE CollectSuggestions(_)
CollectSuggestions(lines) ==
    IF lines = <<>> THEN <<>>
    ELSE (IF LineMatches(Head(lines)) THEN <<Trim(Head(lines))>> ELSE <<>>)
            \o CollectSuggestions(Tail(lines))

extractSuggestions(content) ==
    SliceTo(CollectSuggestions(SplitLines(content)), SuggestionCap)

\* ------------------------------------------------------------ environment
Users == {"u1", "u2"}                 \* authenticated caller identities
ProblemIds == {"p1", "p9"}            \* problemId values a body may carry
ProblemDocs == {"p1"}                 \* ids the Problem collection holds
UserDocs == {"u1"}                    \* ids the User collection holds
GenTypes == {"code_review", "roadmap", "hint", "debug_help"}

TextPlain == <<"o","k">>
TextSuggest == <<" ","c","o","n","s","i","d","e","r"," ","x", NL, "o","k">>
\* what the completion service may answer: text, optional usage metadata
CompletionResults ==
    { [content |-> TextPlain,   hasUsage |-> FALSE, total_tokens |-> 0],
      [content |-> TextSuggest, hasUsage |-> TRUE,  total_tokens |-> 7] }
NoCompletion ==
    [content |-> <<>>, hasUsage |-> FALSE, total_tokens |-> 0, response_time |-> 0]

Feedbacks == { [helpful |-> TRUE,  rating |-> 5, comment |-> "good"],
               [helpful |-> FALSE, rating |-> 1, comment |-> "bad"] }
\* page and limit of GET /history as the numbers the query strings coerce to
HistoryQueries ==
    { [page |-> 1, limit |-> 2, type |-> ""],
      [page |-> 2, limit |-> 2, type |-> ""],
      [page |-> 2, limit |-> 1, type |-> ""],
      [page |-> 1, limit |-> 1, type |-> "hint"] }

\* Interactions the collection holds when the process starts: two earlier
\* requests of u1, saved within the same millisecond
SeedStore ==
    << [_id |-> 1, user |-> "u1", type |-> "hint",
        context |-> [problem |-> "p1"], query |-> "Hint request",
        response |-> TextPlain, tokens_used |-> 0, response_time |-> 0,
        feedback |-> <<>>, createdAt |-> 0],
       [_id |-> 2, user |-> "u1", type |-> "code_review",
        context |-> [problem |-> "p9"], query |-> "Code review request",
        response |-> TextSuggest, tokens_used |-> 7, response_time |-> 0,
        feedback |-> <<>>, createdAt |-> 0] >>

VARIABLES
    OPENAI_API_KEY,   \* TRUE iff process.env.OPENAI_API_KEY was set at load
    reqs,             \* bag of the requests so far, each with its handler's
                      \* position (requests have no identity but their content)
    store,            \* the AIInteraction collection, in insertion order
    calls,            \* number of axios.post dispatches to the completion service
    lookups,          \* number of Problem.findById / User.findById queries
    now,              \* Date.now()
    content,          \* a completion text handed to the extractor on its own
    suggestions,      \* what extractSuggestions returned for it
    epc               \* "input" before that call, "done" after, else "idle"

vars == <<OPENAI_API_KEY, reqs, store, calls, lookups, now,
          content, suggestions, epc>>

Requests == BagToSet(reqs)
Put(r) == reqs (+) SetToBag({r})
Swap(old, new) == (reqs (-) SetToBag({old})) (+) SetToBag({new})

NoBody == [message |-> "", content |-> <<>>, suggestions |-> <<>>,
           interactions |-> <<>>, totalPages |-> 0, currentPage |-> 0,
           total |-> 0]

\* how often effect x occurs in a log
Times(log, x) == Len(SelectSeq(log, LAMBDA e : e = x))

\* log: the effects of the handler so far, in the order they happened
NewReq(kind, user, body) ==
    [kind |-> kind, user |-> user, body |-> body, pc |-> "start",
     status |-> 0, res |-> NoBody, log |-> <<>>,
     startTime |-> 0, response |-> NoCompletion, interaction |-> 0]

\* res.status(code).json({message}); the handler's locals die with it
Reply(r, code, message) ==
    [r EXCEPT !.pc = "done", !.status = code,
              !.res = [NoBody EXCEPT !.message = message],
              !.startTime = 0, !.response = NoCompletion,
              !.log = Append(@, "respond")]

\* the catch block of a handler: console.error, then the generic 500 reply
Caught(r, message) == Reply([r EXCEPT !.log = Append(@, "error")], 500, message)

FailMessage(kind) ==
    CASE kind = "code_review" -> "Failed to analyze code"
      [] kind = "roadmap" -> "Failed to generate roadmap"
      [] kind = "hint" -> "Failed to generate hint"
      [] kind = "debug_help" -> "Failed to provide debug help"
      [] OTHER -> "Server error"

\* Date.now() when a document is stamped: the clock may have advanced by a
\* millisecond since the last document was
DateNow == {now} \cup (IF now < MaxTime THEN {now + 1} ELSE {})

\* ------------------------------------------------------ generation requests
UsesProblem(kind) == kind \in {"code_review", "hint", "debug_help"}
NeedsProblem(kind) == kind \in {"code_review", "hint"}

GenBodies(kind) ==
    IF UsesProblem(kind) THEN { [problemId |-> p] : p \in ProblemIds }
    ELSE { [currentLevel |-> "beginner"] }

\* the entity a handler looks up before it builds its prompt
LookupOf(r) ==
    IF UsesProblem(r.kind) THEN [coll |-> "Problem", id |-> r.body.problemId]
    ELSE [coll |-> "User", id |-> r.user]

LookupFinds(q) ==
    IF q.coll = "Problem" THEN q.id \in ProblemDocs ELSE q.id \in UserDocs

\* variant: the token count is never read from the usage metadata
TokensUsed_Zero(c) == 0

\* response.usage?.total_tokens || 0
TokensUsed(c) ==
    IF c.hasUsage /\ c.total_tokens # 0 THEN c.total_tokens ELSE 0

ContextOf(r) ==
    IF UsesProblem(r.kind) THEN [problem |-> r.body.problemId]
    ELSE [userLevel |-> r.body.currentLevel]

QueryLabel(kind) ==
    CASE kind = "code_review" -> "Code review request"
      [] kind = "roadmap" -> "Personalized roadmap request"
      [] kind = "hint" -> "Hint request"
      [] OTHER -> "Debug help request"

\* new AIInteraction({...}) as the store holds it after save()
NewInteraction(r, id, t) ==
    [_id |-> id, user |-> r.user, type |-> r.kind, context |-> ContextOf(r),
     query |-> QueryLabel(r.kind), response |-> r.response.content,
     tokens_used |-> TokensUsed(r.response),
     response_time |-> r.response.response_time,
     feedback |-> <<>>, createdAt |-> t]

\* variant: the missing Problem is not checked for
AfterLookup_NoNotFound(r) ==
    IF ~LookupFinds(LookupOf(r)) /\ r.kind = "roadmap"
    THEN Caught([r EXCEPT !.log = <<"lookup">>], FailMessage(r.kind))
    ELSE [r EXCEPT !.pc = "calling", !.startTime = now,
                   !.log = <<"lookup", "prompt", "call">>]

\* What the handler does once its lookup has settled: the 404, or the prompt
\* (which throws on a missing user profile) and callOpenAI's axios.post.
AfterLookup(r) ==
    IF ~LookupFinds(LookupOf(r)) /\ NeedsProblem(r.kind)
    THEN Reply([r EXCEPT !.log = <<"lookup">>], 404, "Problem not found")
    ELSE IF ~LookupFinds(LookupOf(r)) /\ r.kind = "roadmap"
    THEN Caught([r EXCEPT !.log = <<"lookup">>], FailMessage(r.kind))
    ELSE [r EXCEPT !.pc = "calling", !.startTime = now,
                   !.log = <<"lookup", "prompt", "call">>]

\* variant: the lookup is issued before the credential is checked
ArriveGen_LookupFirst(kind, u, body) ==
    LET r == NewReq(kind, u, body) IN
    /\ BagCardinality(reqs) < MaxReq
    /\ lookups' = lookups + 1
    /\ IF ~OPENAI_API_KEY
       THEN /\ reqs' = Put(Reply([r EXCEPT !.log = <<"lookup">>], 500,
                                 "AI service not configured"))
            /\ UNCHANGED calls
       ELSE /\ reqs' = Put(AfterLookup(r))
            /\ calls' = IF AfterLookup(r).pc = "calling" THEN calls + 1
                        ELSE calls
    /\ UNCHANGED <<content, suggestions, epc, OPENAI_API_KEY, store, now>>

\* The handler from its entry to the dispatch of the completion call. The
\* await of the lookup is not a step of its own: the Problem and User
\* collections are never written here, so nothing is observable across it.
\* Queries that read the database are taken to succeed; the writes and the
\* completion call may fail.
ArriveGen(kind, u, body) ==
    LET r == NewReq(kind, u, body) IN
    /\ BagCardinality(reqs) < MaxReq
    /\ IF ~OPENAI_API_KEY
       THEN /\ reqs' = Put(Reply(r, 500, "AI service not configured"))
            /\ UNCHANGED <<lookups, calls>>
       ELSE /\ lookups' = lookups + 1
            /\ reqs' = Put(AfterLookup(r))
            /\ calls' = IF AfterLookup(r).pc = "calling" THEN calls + 1
                        ELSE calls
    /\ UNCHANGED <<content, suggestions, epc, OPENAI_API_KEY, store, now>>

\* variant: a failed completion call is dispatched once more
CallReturn_Retry(r) ==
    /\ r.pc = "calling"
    /\ \/ /\ Times(r.log, "call") < 2
          /\ reqs' = Swap(r, [r EXCEPT !.log = Append(@, "call")])
          /\ calls' = calls + 1
       \/ /\ Times(r.log, "call") >= 2
          /\ reqs' = Swap(r, Caught([r EXCEPT !.startTime = 0,
                                             !.log = Append(@, "upstream_error")],
                                    FailMessage(r.kind)))
          /\ UNCHANGED calls
       \/ /\ \E c \in CompletionResults :
               reqs' = Swap(r, [r EXCEPT !.pc = "saving", !.startTime = 0,
                      !.response = c @@ [response_time |-> now - r.startTime]])
          /\ UNCHANGED calls
    /\ UNCHANGED <<content, suggestions, epc, OPENAI_API_KEY, store, lookups, now>>

\* axios.post settles: callOpenAI returns its result or throws; on a result
\* the Interaction is constructed and save() is issued
CallReturn(r) ==
    /\ r.pc = "calling"
    /\ \/ reqs' = Swap(r, Caught([r EXCEPT !.startTime = 0,
                                            !.log = Append(@, "upstream_error")],
                                 FailMessage(r.kind)))
       \/ \E c \in CompletionResults :
            reqs' = Swap(r, [r EXCEPT !.pc = "saving", !.startTime = 0,
                   !.response = c @@ [response_time |-> now - r.startTime]])
    /\ UNCHANGED <<content, suggestions, epc, OPENAI_API_KEY, store, calls, lookups, now>>

\* res.json({...}): the structured fields are extracted while it is built
Respond(r) ==
    [r EXCEPT !.pc = "done", !.status = 200,
              !.res = [NoBody EXCEPT
                         !.content = r.response.content,
                         !.suggestions =
                             IF r.kind = "code_review"
                             THEN extractSuggestions(r.response.content)
                             ELSE <<>>],
              !.log = @ \o <<"extract", "respond">>]

\* variant: the structured fields are extracted before the Interaction is saved
SaveInteraction_ExtractFirst(r) ==
    /\ r.pc = "saving"
    /\ r.kind \in GenTypes
    /\ \/ /\ reqs' = Swap(r, Caught([r EXCEPT !.log = Append(@, "extract")],
                                    FailMessage(r.kind)))
          /\ UNCHANGED <<store, now>>
       \/ \E t \in DateNow :
            /\ now' = t
            /\ store' = Append(store, NewInteraction(r, Len(store) + 1, t))
            /\ reqs' = Swap(r, [Respond(r) EXCEPT
                                  !.interaction = Len(store) + 1,
                                  !.log = r.log \o <<"extract", "persist",
                                                     "respond">>])
    /\ UNCHANGED <<content, suggestions, epc, OPENAI_API_KEY, calls, lookups>>

\* variant: an Interaction equal to one already stored is not stored again
SaveInteraction_Dedup(r) ==
    /\ r.pc = "saving"
    /\ r.kind \in GenTypes
    /\ \/ /\ reqs' = Swap(r, Caught(r, FailMessage(r.kind)))
          /\ UNCHANGED <<store, now>>
       \/ \E t \in DateNow :
            LET same == { k \in 1..Len(store) :
                            [store[k] EXCEPT !.feedback = <<>>]
                              = NewInteraction(r, k, store[k].createdAt) }
            IN  IF same = {}
                THEN /\ now' = t
                     /\ store' = Append(store,
                                        NewInteraction(r, Len(store) + 1, t))
                     /\ reqs' = Swap(r, Respond([r EXCEPT
                                           !.interaction = Len(store) + 1,
                                           !.log = Append(@, "persist")]))
                ELSE /\ UNCHANGED <<store, now>>
                     /\ reqs' = Swap(r, Respond([r EXCEPT
                                           !.interaction = CHOOSE k \in same : TRUE,
                                           !.log = Append(@, "persist")]))
    /\ UNCHANGED <<content, suggestions, epc, OPENAI_API_KEY, calls, lookups>>

\* interaction.save() settles: it threw, or the document is in the store and
\* the handler resumes and sends the reply. The reply is not a step of its
\* own: it touches nothing another request reads, so it commutes with every
\* step of the others.
SaveInteraction(r) ==
    /\ r.pc = "saving"
    /\ r.kind \in GenTypes
    /\ \/ /\ reqs' = Swap(r, Caught(r, FailMessage(r.kind)))
          /\ UNCHANGED <<store, now>>
       \/ \E t \in DateNow :
            /\ now' = t
            /\ store' = Append(store, NewInteraction(r, Len(store) + 1, t))
            /\ reqs' = Swap(r, Respond([r EXCEPT
                                  !.interaction = Len(store) + 1,
                                  !.log = Append(@, "persist")]))
    /\ UNCHANGED <<content, suggestions, epc, OPENAI_API_KEY, calls, lookups>>

\* ------------------------------------------------------------------ history
\* the documents AIInteraction.find(query) / countDocuments(query) match
Matching(u, type) ==
    { k \in 1..Len(store) :
        store[k].user = u /\ (type = "" \/ store[k].type = type) }

\* .sort({createdAt: -1}): every order with createdAt non-increasing
RECURSIVE SortedDesc(_)
SortedDesc(S) ==
    IF S = {} THEN { <<>> }
    ELSE UNION { { <<k>> \o rest : rest \in SortedDesc(S \ {k}) } :
                 k \in { m \in S : \A n \in S :
                            store[m].createdAt >= store[n].createdAt } }

\* variant: skip counts pages, not documents
PageOf_SkipPages(ord, page, limit) ==
    LET skip == page - 1
        last == IF skip + limit < Len(ord) THEN skip + limit ELSE Len(ord)
    IN  SubSeq(ord, skip + 1, last)

\* .limit(limit * 1).skip((page - 1) * limit)
PageOf(ord, page, limit) ==
    LET skip == (page - 1) * limit
        last == IF skip + limit < Len(ord) THEN skip + limit ELSE Len(ord)
    IN  SubSeq(ord, skip + 1, last)

\* variant: the quotient rounded down
CeilDiv_Floor(total, limit) == total \div limit

\* Math.ceil(total / limit), limit > 0
CeilDiv(total, limit) == (total + limit - 1) \div limit

\* .populate('context.problem', 'title difficulty'): the Problem inlined,
\* none when it no longer exists
Populate(doc) ==
    IF "problem" \in DOMAIN doc.context
    THEN [doc EXCEPT !.context =
            [problem |-> IF doc.context.problem \in ProblemDocs
                         THEN <<doc.context.problem>> ELSE <<>>]]
    ELSE doc

\* what the find query of a history request returns
FindPage(u, q) ==
    { [k \in DOMAIN PageOf(ord, q.page, q.limit)
          |-> Populate(store[PageOf(ord, q.page, q.limit)[k]])] :
      ord \in SortedDesc(Matching(u, q.type)) }

\* the handler up to the result of its find query (the query runs at some
\* moment after the request arrived: that moment is this step)
HistoryFind(u, q) ==
    LET r == NewReq("history", u, q) IN
    /\ BagCardinality(reqs) < MaxReq
    /\ \E page \in FindPage(u, q) :
         reqs' = Put([r EXCEPT !.pc = "counting", !.res.interactions = page])
    /\ UNCHANGED <<content, suggestions, epc, OPENAI_API_KEY, store, calls, lookups, now>>

\* the count query runs against the store and the page is returned
HistoryCount(r) ==
    LET total == Cardinality(Matching(r.user, r.body.type)) IN
    /\ r.pc = "counting"
    /\ reqs' = Swap(r,
         [r EXCEPT !.pc = "done", !.status = 200,
                   !.res.totalPages = CeilDiv(total, r.body.limit),
                   !.res.currentPage = r.body.page,
                   !.res.total = total,
                   !.log = Append(@, "respond")])
    /\ UNCHANGED <<content, suggestions, epc, OPENAI_API_KEY, store, calls, lookups, now>>

\* ----------------------------------------------------------------- feedback
\* variant: ownership is not checked
Owns_Anyone(doc, u) == TRUE

\* variant: feedback already given is kept
WithFeedback_KeepFirst(doc, fb) ==
    IF doc.feedback = <<>> THEN [doc EXCEPT !.feedback = <<fb>>] ELSE doc

\* interaction.user.toString() === req.user.userId
Owns(doc, u) == doc.user = u

\* interaction.feedback = {helpful, rating, comment}
WithFeedback(doc, fb) == [doc EXCEPT !.feedback = <<fb>>]

\* the handler up to the result of findById: existence, then ownership
FeedbackFind(u, id, fb) ==
    LET r == NewReq("feedback", u, [interactionId |-> id, feedback |-> fb]) IN
    /\ BagCardinality(reqs) < MaxReq
    /\ \/ /\ id \notin 1..Len(store)
          /\ reqs' = Put(Reply(r, 404, "Interaction not found"))
       \/ /\ id \in 1..Len(store)
          /\ ~Owns(store[id], u)
          /\ reqs' = Put(Reply(r, 403, "Not authorized"))
       \/ /\ id \in 1..Len(store)
          /\ Owns(store[id], u)
          /\ reqs' = Put([r EXCEPT !.pc = "saving", !.interaction = id])
    /\ UNCHANGED <<content, suggestions, epc, OPENAI_API_KEY, store, calls, lookups, now>>

\* interaction.save() writes the feedback field, then the reply is sent
FeedbackSave(r) ==
    /\ r.pc = "saving"
    /\ r.kind = "feedback"
    /\ \/ /\ reqs' = Swap(r, Caught(r, "Server error"))
          /\ UNCHANGED store
       \/ /\ store' = [store EXCEPT
                         ![r.interaction] = WithFeedback(@, r.body.feedback)]
          /\ reqs' = Swap(r, Reply([r EXCEPT !.log = <<"persist">>], 200,
                                   "Feedback saved successfully"))
    /\ UNCHANGED <<content, suggestions, epc, OPENAI_API_KEY, calls, lookups, now>>

\* ------------------------------------------------------------ specification
Init ==
    /\ OPENAI_API_KEY \in BOOLEAN
    /\ reqs = EmptyBag
    /\ store = SeedStore
    /\ calls = 0
    /\ lookups = 0
    /\ now = 0
    /\ content = <<>>
    /\ suggestions = <<>>
    /\ epc = "idle"

Next ==
    \/ \E kind \in GenTypes, u \in Users :
         \E body \in GenBodies(kind) : ArriveGen(kind, u, body)
    \/ \E r \in Requests : CallReturn(r)
    \/ \E r \in Requests : SaveInteraction(r)
    \/ \E u \in Users, q \in HistoryQueries : HistoryFind(u, q)
    \/ \E r \in Requests : HistoryCount(r)
    \/ \E u \in Users, id \in 1..(Len(store) + 1), fb \in Feedbacks :
         FeedbackFind(u, id, fb)
    \/ \E r \in Requests : FeedbackSave(r)

Spec == Init /\ [][Next]_vars

\* ------------------------------------------- the suggestions extractor alone
LineConsider == <<" ","c","o","n","s","i","d","e","r"," ","x"," ">>
LineImprove == <<"I","m","p","r","o","v","e">>
LineOk == <<"o","k">>
LineSuggestions == <<"\t","s","u","g","g","e","s","t","i","o","n","s">>
SampleLines == {LineConsider, LineImprove, LineOk, LineSuggestions}

\* lines.join('\n')
RECURSIVE JoinLines(_)
JoinLines(ls) ==
    IF ls = <<>> THEN <<>>
    ELSE IF Len(ls) = 1 THEN ls[1]
    ELSE ls[1] \o <<NL>> \o JoinLines(Tail(ls))

Texts == { JoinLines(ls) :
             ls \in UNION { [1..k -> SampleLines] : k \in 0..MaxLines } }

InitExtract ==
    /\ OPENAI_API_KEY = TRUE
    /\ reqs = EmptyBag
    /\ store = SeedStore
    /\ calls = 0
    /\ lookups = 0
    /\ now = 0
    /\ content \in Texts
    /\ suggestions = <<>>
    /\ epc = "input"

Extract ==
    /\ epc = "input"
    /\ suggestions' = extractSuggestions(content)
    /\ epc' = "done"
    /\ UNCHANGED <<OPENAI_API_KEY, reqs, store, calls, lookups, now, content>>

NextExtract == Extract

SpecExtract == InitExtract /\ [][NextExtract]_vars

\* =================================================================== claims
IsGen(r) == r.kind \in GenTypes

\* how often effect x occurs in the logs of the requests in S
TotalOf(S, x) ==
    LET T == { r \in S : Times(r.log, x) > 0 } IN
    IF T = {} THEN 0
    ELSE BagCardinality([r \in T |-> CopiesIn(r, reqs) * Times(r.log, x)])

\* the completion service and the store see what the handlers logged
EffectsAccounted ==
    /\ calls = TotalOf(Requests, "call")
    /\ lookups = TotalOf(Requests, "lookup")
    /\ Len(store) = Len(SeedStore)
          + TotalOf({ r \in Requests : IsGen(r) }, "persist")

\* C1: with the service configured, a code-review or hint request whose
\* problemId names no Problem has ended with 404 "Problem not found",
\* having dispatched no completion call and written
\* no Interaction; the calls the service saw and the documents the store
\* holds are exactly those of the other requests.
C1_MissingProblemNoEffects ==
    /\ EffectsAccounted
    /\ \A r \in Requests :
         ( /\ OPENAI_API_KEY
           /\ r.kind \in {"code_review", "hint"}
           /\ r.body.problemId \notin ProblemDocs )
         => /\ r.pc = "done"
            /\ r.status = 404
            /\ r.res = [NoBody EXCEPT !.message = "Problem not found"]
            /\ r.log = <<"lookup", "respond">>
            /\ r.interaction = 0

C1_Witness ==
    \E r \in Requests, g \in Requests :
        /\ OPENAI_API_KEY
        /\ r.kind = "hint" /\ r.status = 404
        /\ g.kind = "code_review" /\ g.status = 404
        /\ calls = 0
        /\ store = SeedStore

\* C4: without the credential every generation request is answered 500
\* "AI service not configured" before anything else is done: no Problem or
\* User lookup, no completion call, no Interaction written, whatever the body.
C4_UnconfiguredFirst ==
    ~OPENAI_API_KEY =>
        /\ lookups = 0
        /\ calls = 0
        /\ Len(store) = Len(SeedStore)
        /\ \A r \in Requests : IsGen(r) =>
             /\ r.pc = "done"
             /\ r.status = 500
             /\ r.res = [NoBody EXCEPT !.message = "AI service not configured"]
             /\ r.log = <<"respond">>
             /\ r.interaction = 0

C4_Witness ==
    /\ ~OPENAI_API_KEY
    /\ \E r \in Requests, g \in Requests :
         /\ r.kind = "code_review" /\ r.body.problemId \notin ProblemDocs
         /\ r.status = 500
         /\ g.kind = "roadmap" /\ g.status = 500

\* C3: a generation request answered with success has persisted exactly one
\* Interaction of its own: user the caller, response the completion text,
\* tokens_used the completion's total token count when usage was reported and
\* 0 when it was not.
C3_SuccessPersistsOne ==
    /\ Len(store) = Len(SeedStore)
          + TotalOf({ r \in Requests : IsGen(r) }, "persist")
    /\ \A r \in Requests : (IsGen(r) /\ r.status = 200) =>
         /\ Times(r.log, "persist") = 1
         /\ CopiesIn(r, reqs) = 1
         /\ r.interaction \in (Len(SeedStore) + 1)..Len(store)
         /\ LET doc == store[r.interaction] IN
              /\ doc.user = r.user
              /\ doc.type = r.kind
              /\ doc.response = r.response.content
              /\ doc.response = r.res.content
              /\ doc.tokens_used = IF r.response.hasUsage
                                   THEN r.response.total_tokens ELSE 0
         /\ \A g \in Requests :
              (IsGen(g) /\ g.status = 200 /\ g # r)
                  => g.interaction # r.interaction

C3_Witness ==
    \E r \in Requests, g \in Requests :
        /\ IsGen(r) /\ r.status = 200 /\ ~r.response.hasUsage
        /\ store[r.interaction].tokens_used = 0
        /\ IsGen(g) /\ g.status = 200 /\ g.response.hasUsage
        /\ store[g.interaction].tokens_used = 7

\* C6: a generation request whose completion call failed dispatched exactly
\* one call (no retry), wrote no Interaction, and ended with one 500 reply
\* that carries only the generic message of its endpoint.
C6_UpstreamFailureAborts ==
    \A r \in Requests : (IsGen(r) /\ Times(r.log, "upstream_error") > 0) =>
        /\ Times(r.log, "call") = 1
        /\ Times(r.log, "upstream_error") = 1
        /\ Times(r.log, "persist") = 0
        /\ r.interaction = 0
        /\ r.pc = "done"
        /\ Times(r.log, "respond") = 1
        /\ r.status = 500
        /\ r.res = [NoBody EXCEPT !.message = FailMessage(r.kind)]

C6_Witness ==
    /\ \E r \in Requests : IsGen(r) /\ Times(r.log, "upstream_error") = 1
                            /\ r.status = 500
    /\ calls = 1
    /\ store = SeedStore

IsFeedback(r) == r.kind = "feedback"

\* C2: a feedback request for an id no Interaction has ends 404, one by a
\* caller who is not the owner ends 403, and neither writes; only the owner
\* gets as far as the write. So every feedback value the store holds was
\* submitted by the owner of its Interaction.
C2_FeedbackOwnerOnly ==
    /\ \A r \in Requests : IsFeedback(r) =>
         /\ (r.pc = "saving" \/ r.status = 200) =>
              /\ r.interaction = r.body.interactionId
              /\ r.interaction \in 1..Len(store)
              /\ store[r.interaction].user = r.user
         /\ r.status \in {403, 404} =>
              /\ r.log = <<"respond">>
              /\ r.interaction = 0
         /\ r.status = 403 =>
              /\ r.body.interactionId \in 1..Len(store)
              /\ store[r.body.interactionId].user # r.user
         /\ (r.pc = "done" /\ Times(r.log, "error") = 0
               /\ r.body.interactionId \notin 1..Len(store)) => r.status = 404
         /\ (r.pc = "done" /\ Times(r.log, "error") = 0
               /\ r.body.interactionId \in 1..Len(store)
               /\ store[r.body.interactionId].user # r.user)
              => r.status \in {403, 404}
    /\ \A k \in 1..Len(store) : store[k].feedback # <<>> =>
         \E r \in Requests :
            /\ IsFeedback(r) /\ r.status = 200
            /\ r.user = store[k].user
            /\ r.body.interactionId = k
            /\ store[k].feedback = <<r.body.feedback>>

C2_Witness ==
    \E a \in Requests, b \in Requests :
        /\ IsFeedback(a) /\ a.status = 403 /\ a.body.interactionId = 1
        /\ IsFeedback(b) /\ b.status = 200 /\ b.body.interactionId = 1
        /\ a.body.feedback # b.body.feedback
        /\ store[1].feedback = <<b.body.feedback>>

\* an Interaction without its feedback
Frozen(doc) == [doc EXCEPT !.feedback = <<>>]

\* C5: no step removes an Interaction or changes its user, type, context,
\* response, tokens_used, response_time or createdAt; feedback changes only
\* in the write of a feedback request on that Interaction, and a feedback
\* request that succeeds leaves its own value there, whatever was there
\* before (last write wins).
C5_OnlyFeedbackChanges ==
    [][ /\ Len(store') >= Len(store)
        /\ \A k \in 1..Len(store) :
             /\ Frozen(store'[k]) = Frozen(store[k])
             /\ store'[k].feedback # store[k].feedback =>
                  \E r \in Requests :
                     /\ IsFeedback(r) /\ r.pc = "saving" /\ r.interaction = k
                     /\ CopiesIn(r, reqs') = CopiesIn(r, reqs) - 1
                     /\ store'[k].feedback = <<r.body.feedback>>
        /\ \A r \in Requests :
             ( /\ IsFeedback(r) /\ r.pc = "saving"
               /\ CopiesIn(r, reqs') = CopiesIn(r, reqs) - 1
               /\ \E d \in BagToSet(reqs') :
                    /\ IsFeedback(d) /\ d.status = 200
                    /\ d.user = r.user /\ d.body = r.body
                    /\ CopiesIn(d, reqs') = CopiesIn(d, reqs) + 1 )
             => store'[r.interaction].feedback = <<r.body.feedback>>
      ]_vars

C5_Witness ==
    \E a \in Requests, b \in Requests :
        /\ IsFeedback(a) /\ a.status = 200 /\ a.interaction = 2
        /\ IsFeedback(b) /\ b.status = 200 /\ b.interaction = 2
        /\ a.body.feedback # b.body.feedback
        /\ store[2].feedback = <<b.body.feedback>>
        /\ Frozen(store[2]) = SeedStore[2]

\* C8: requests are neither serialized nor deduplicated. Every dispatched
\* call is accounted to one request, so identical requests in flight have a
\* call each; and every generation request answered with success has its own
\* Interaction, built from its own inputs and its own completion result.
C8_NoDedup ==
    /\ calls = TotalOf(Requests, "call")
    /\ \A r \in Requests : (IsGen(r) /\ r.pc \in {"calling", "saving"}) =>
         calls >= CopiesIn(r, reqs)
    /\ \A r \in Requests : (IsGen(r) /\ r.status = 200) =>
         /\ CopiesIn(r, reqs) = 1
         /\ r.interaction \in 1..Len(store)
         /\ Frozen(store[r.interaction])
              = NewInteraction(r, r.interaction, store[r.interaction].createdAt)
         /\ \A g \in Requests :
              (IsGen(g) /\ g.status = 200 /\ g # r)
                  => g.interaction # r.interaction

\* two identical requests, both answered with success, the second dispatched
\* before the first one's Interaction was stamped (its measured response time
\* spans that tick of the clock)
C8_Witness ==
    \E r \in Requests, g \in Requests :
        /\ IsGen(r) /\ r.status = 200
        /\ IsGen(g) /\ g.status = 200
        /\ r.kind = g.kind /\ r.user = g.user /\ r.body = g.body
        /\ r.response.content = g.response.content
        /\ r.interaction < g.interaction
        /\ store[r.interaction].createdAt = 1
        /\ g.response.response_time = 1
        /\ calls = 2
        /\ BagCardinality(reqs) = 2

\* the effects of a log other than the console.error calls
Effects(log) ==
    SelectSeq(log, LAMBDA e : e \notin {"error", "upstream_error"})

\* e is order with some of its elements left out
RECURSIVE IsSubSeq(_, _)
IsSubSeq(e, order) ==
    IF e = <<>> THEN TRUE
    ELSE IF order = <<>> THEN FALSE
    ELSE IF Head(e) = Head(order) THEN IsSubSeq(Tail(e), Tail(order))
    ELSE IsSubSeq(e, Tail(order))

\* the effects happen in the order given, each at most once
InOrder(log, order) == IsSubSeq(Effects(log), order)

OrderClaimed == <<"lookup", "prompt", "call", "extract", "persist", "respond">>
OrderInCode == <<"lookup", "prompt", "call", "persist", "extract", "respond">>

\* C9 as stated: lookup, prompt, one call, extraction, one write, response;
\* extraction before the Interaction is persisted.
C9_ExtractBeforePersist ==
    \A r \in Requests : IsGen(r) =>
        /\ InOrder(r.log, OrderClaimed)
        /\ r.status = 200 => Effects(r.log) = OrderClaimed

\* C9 as amended: lookup, prompt, one call, one write, then extraction while
\* the response is built, then the response.
C9_PersistBeforeExtract ==
    \A r \in Requests : IsGen(r) =>
        /\ InOrder(r.log, OrderInCode)
        /\ r.status = 200 => Effects(r.log) = OrderInCode

C9_Witness ==
    \E r \in Requests :
        /\ r.kind = "code_review" /\ r.status = 200
        /\ r.log = OrderInCode
        /\ r.res.suggestions # <<>>

IsHistory(r) == r.kind = "history"

\* the matching Interactions among the first n the store received
Snapshot(r, n) == { k \in Matching(r.user, r.body.type) : k <= n }

\* items are the elements at positions (page-1)*limit .. page*limit-1 of ord
\* (counted from 0), as many of them as ord has
IsSlice(items, ord, page, limit) ==
    LET first == (page - 1) * limit
        rest == IF Len(ord) > first THEN Len(ord) - first ELSE 0
    IN  /\ Len(items) = IF rest < limit THEN rest ELSE limit
        /\ \A k \in DOMAIN items : items[k]._id = ord[first + k]

\* p = ceil(total / limit)
IsCeil(p, total, limit) == p * limit >= total /\ (p - 1) * limit < total

\* what C7 says of every page, whichever moment the totals are taken at
PageWellFormed(r) ==
    LET items == r.res.interactions IN
    /\ \A k \in DOMAIN items :
         /\ items[k].user = r.user
         /\ r.body.type # "" => items[k].type = r.body.type
         /\ items[k]._id \in 1..Len(store)
         /\ Frozen(items[k]) = Frozen(Populate(store[items[k]._id]))
    /\ \A k \in 1..(Len(items) - 1) :
         items[k].createdAt >= items[k + 1].createdAt
    /\ Len(items) <= r.body.limit
    /\ r.status = 200 =>
         /\ IsCeil(r.res.totalPages, r.res.total, r.body.limit)
         /\ r.res.currentPage = r.body.page

\* 45 interactions, limit 20: three pages, the third holds the 5 oldest
PageExample ==
    /\ CeilDiv(45, 20) = 3
    /\ PageOf([k \in 1..45 |-> 46 - k], 3, 20) = <<5, 4, 3, 2, 1>>

\* C7 as stated: the page and the total describe one and the same set of
\* matching Interactions: the page is the slice (page-1)*limit .. page*limit-1
\* of its ordering by createdAt descending, total is its size.
C7_PageAndTotalOfOneSet ==
    \A r \in Requests : (IsHistory(r) /\ r.status = 200) =>
        /\ PageWellFormed(r)
        /\ \E n \in 0..Len(store) :
             /\ r.res.total = Cardinality(Snapshot(r, n))
             /\ \E ord \in SortedDesc(Snapshot(r, n)) :
                  IsSlice(r.res.interactions, ord, r.body.page, r.body.limit)

\* C7 as amended: the page is that slice of the matching Interactions as of
\* the find query; total counts the matching Interactions as of the count
\* query, which runs later and may see more; totalPages = ceil(total/limit).
C7_PageThenTotal ==
    /\ PageExample
    /\ \A r \in Requests : IsHistory(r) =>
        /\ PageWellFormed(r)
        /\ \E n \in 0..Len(store) :
             /\ \E ord \in SortedDesc(Snapshot(r, n)) :
                  IsSlice(r.res.interactions, ord, r.body.page, r.body.limit)
             /\ r.status = 200 =>
                  \E m \in n..Len(store) :
                      r.res.total = Cardinality(Snapshot(r, m))

C7_Witness ==
    \E r \in Requests :
        /\ IsHistory(r) /\ r.status = 200 /\ r.user = "u1"
        /\ r.body = [page |-> 2, limit |-> 2, type |-> ""]
        /\ Len(r.res.interactions) = 1
        /\ r.res.interactions[1].createdAt = 0
        /\ r.res.total = 3 /\ r.res.totalPages = 2
        /\ store[3].createdAt = 1

\* ---- the extractor, stated from the text instead of computed as the code does
Keywords == {KwSuggestion, KwImprove, KwConsider}
NLPos(c) == { i \in 1..Len(c) : c[i] = NL }
LineCount(c) == Cardinality(NLPos(c)) + 1
\* the position of the k-th line separator; 0 before the first line and
\* Len(c) + 1 after the last
SepPos(c, k) ==
    IF k = 0 THEN 0
    ELSE IF k > Cardinality(NLPos(c)) THEN Len(c) + 1
    ELSE CHOOSE p \in NLPos(c) :
            Cardinality({ q \in NLPos(c) : q < p }) = k - 1
LineAt(c, k) == SubSeq(c, SepPos(c, k - 1) + 1, SepPos(c, k) - 1)

Inked(l) == { i \in 1..Len(l) : ~IsSpace(l[i]) }
Trimmed(l) ==
    IF Inked(l) = {} THEN <<>>
    ELSE SubSeq(l, CHOOSE i \in Inked(l) : \A j \in Inked(l) : i <= j,
                   CHOOSE i \in Inked(l) : \A j \in Inked(l) : i >= j)

HasKeyword(l) ==
    \E kw \in Keywords : \E i \in 1..Len(l) :
        i + Len(kw) - 1 <= Len(l) /\ SubSeq(l, i, i + Len(kw) - 1) = kw

\* the first SuggestionCap lines of c among those in Hit, trimmed, in order
FirstHits(c, Hit) ==
    LET nth(j) == CHOOSE k \in Hit : Cardinality({ h \in Hit : h < k }) = j - 1
        len == IF Cardinality(Hit) < SuggestionCap THEN Cardinality(Hit)
               ELSE SuggestionCap
    IN  [j \in 1..len |-> Trimmed(LineAt(c, nth(j)))]

HitsExact(c) == { k \in 1..LineCount(c) : HasKeyword(LineAt(c, k)) }
HitsAnyCase(c) == { k \in 1..LineCount(c) : HasKeyword(ToLower(LineAt(c, k))) }

\* C10 as stated: the keywords are matched whatever their case.
C10_AnyCase ==
    epc = "done" => suggestions = FirstHits(content, HitsAnyCase(content))

\* C10 as amended: the trimmed lines that contain "suggestion", "improve" or
\* "consider" spelled exactly so, in lower case, top to bottom, the first 5
\* of them; none gives the empty list.
C10_ExactCase ==
    epc = "done" =>
        /\ suggestions = FirstHits(content, HitsExact(content))
        /\ Len(suggestions) <= SuggestionCap

C10_Witness ==
    /\ epc = "done"
    /\ Cardinality(HitsExact(content)) > SuggestionCap
    /\ Cardinality(HitsAnyCase(content)) > Cardinality(HitsExact(content))
    /\ Len(suggestions) = SuggestionCap
    /\ \E k \in DOMAIN suggestions : suggestions[k] = Trim(LineConsider)
    /\ Trim(LineConsider) # LineConsider

====
